---------------------------- MODULE Spec2Model ----------------------------
(***************************************************************************)
(* The license service of package license: RegisterService and the load    *)
(* pipeline readAndValidateLicense -> readLicense -> validateLicense ->    *)
(* trial check -> CheckExpiry -> atomic Store, one call of RegisterService *)
(* per behaviour, interleaved with the wall clock and with a concurrent    *)
(* reader of the published snapshot.                                       *)
(*                                                                         *)
(* Bytes are modelled as sequences of tokens.  A license is a sequence     *)
(* over: the line break, the delimiter ".", a byte that is not in the      *)
(* base64 alphabet, and base64 groups.  A base64 group decodes to one      *)
(* chunk: a JSON document or an RSA signature.  RSA and SHA-256 are        *)
(* symbolic: a signature names its signer and the digest it was made over. *)
(***************************************************************************)
EXTENDS Integers, Sequences, FiniteSets, TLC

VARIABLES
    conf,           \* Service.conf
    fs,             \* the filesystem: path -> file
    now,            \* the wall clock, seconds since the epoch
    pc,             \* position of the RegisterService call
    licenseBytes,   \* readAndValidateLicense: licenseBytes
    err,            \* the error in flight ("" is nil)
    license,        \* readAndValidateLicense: license / RegisterService: license
    publicKeyRSA,   \* validateLicense: publicKeyRSA
    splitParts,     \* validateLicense: splitParts
    licenseData,    \* validateLicense: licenseData (decoded payload)
    signature,      \* validateLicense: signature (decoded)
    loadedLicense,  \* Service.loadedLicense: <<>> is the nil pointer
    registered,     \* setSharedService has run
    errorLog,       \* error level log lines
    debugLog,       \* debug level log lines
    fileReads,      \* paths handed to os.ReadFile, in order
    verified,       \* rsa.VerifyPKCS1v15 returned nil
    unmarshalled,   \* json.Unmarshal has been called
    synthAt,        \* time.Now() of line 121, <<>> if not taken
    checkedAt,      \* time.Now() inside CheckExpiry, <<>> if not taken
    stores,         \* every value stored into loadedLicense, in order
    observed        \* what a concurrent reader last saw: <<>> nothing read yet

vars == <<conf, fs, now, pc, licenseBytes, err, license, publicKeyRSA,
          splitParts, licenseData, signature, loadedLicense, registered,
          errorLog, debugLog, fileReads, verified, unmarshalled, synthAt,
          checkedAt, stores, observed>>

-----------------------------------------------------------------------------
(* Bounds *)

\* The clock runs from 1 to MaxNow.
MaxNow == 2

\* Expiry values carried by credentials: 0 .. MaxNow + 1.
Expiries == 0 .. (MaxNow + 1)

-----------------------------------------------------------------------------
(* Program constants *)

defaultLicenseFilepath == "/etc/redpanda/redpanda.license"

\* year := time.Hour * 24 * 365, in seconds
year == 31536000

\* RedpandaLicense{}
ZeroLicense == [Version |-> 0, Organization |-> "", Type |-> 0, Expiry |-> 0]

-----------------------------------------------------------------------------
(* Tokens *)

NL  == [k |-> "nl"]
DOT == [k |-> "dot"]
BAD == [k |-> "bad"]

B64(chunk) == [k |-> "b64", d |-> chunk]

\* A JSON object holding the members named in keys.
JsonDoc(keys, v, o, t, e, tstr) ==
    [form |-> "object", keys |-> keys, version |-> v, organization |-> o,
     type |-> t, expiry |-> e, typeIsString |-> tstr]

NotJson == [form |-> "text"]

Sha256(m) == [alg |-> "sha256", of |-> m]

\* The PKCS#1 v1.5 signature of digest h under the private key of id.
SignPKCS1v15(id, h) == [form |-> "sig", signer |-> id, digest |-> h]

-----------------------------------------------------------------------------
(* Library functions, as the code uses them *)

IsSpace(b) == b = NL

RECURSIVE TrimLeft(_)
TrimLeft(s) ==
    IF s # <<>> /\ IsSpace(Head(s)) THEN TrimLeft(Tail(s)) ELSE s

RECURSIVE TrimRight(_)
TrimRight(s) ==
    IF s # <<>> /\ IsSpace(s[Len(s)])
    THEN TrimRight(SubSeq(s, 1, Len(s) - 1))
    ELSE s

\* bytes.TrimSpace
TrimSpace(s) == TrimRight(TrimLeft(s))

\* bytes.Split(s, []byte(".")): one more part than there are delimiters.
RECURSIVE SplitFrom(_, _)
SplitFrom(s, cur) ==
    IF s = <<>> THEN <<cur>>
    ELSE IF Head(s) = DOT THEN <<cur>> \o SplitFrom(Tail(s), <<>>)
    ELSE SplitFrom(Tail(s), Append(cur, Head(s)))

Split(s) == SplitFrom(s, <<>>)

\* base64.StdEncoding.DecodeString: line breaks are skipped, any other byte
\* outside the alphabet is an error; the groups decode in order.
RECURSIVE DecodeGroups(_)
DecodeGroups(s) ==
    IF s = <<>> THEN <<>>
    ELSE IF Head(s) = NL THEN DecodeGroups(Tail(s))
    ELSE <<Head(s).d>> \o DecodeGroups(Tail(s))

DecodeString(s) ==
    IF \E i \in 1..Len(s) : s[i].k \notin {"b64", "nl"}
    THEN [err |-> TRUE, data |-> <<>>]
    ELSE [err |-> FALSE, data |-> DecodeGroups(s)]

\* pem.Decode: the first PEM block of the input, <<>> (nil) if there is none.
RECURSIVE PemDecode(_)
PemDecode(p) ==
    IF p = <<>> THEN <<>>
    ELSE IF Head(p).kind = "block" THEN <<Head(p)>>
    ELSE PemDecode(Tail(p))

\* x509.ParsePKIXPublicKey on the DER bytes of a block.
ParsePKIXPublicKey(der) ==
    IF der.wellFormed
    THEN [err |-> FALSE, alg |-> der.alg, id |-> der.id]
    ELSE [err |-> TRUE, alg |-> "", id |-> ""]

\* rsa.VerifyPKCS1v15(pub, crypto.SHA256, hash, sig) = nil
VerifyPKCS1v15(pub, hash, sig) ==
    /\ Len(sig) = 1
    /\ sig[1].form = "sig"
    /\ sig[1].signer = pub
    /\ sig[1].digest = hash

\* json.Unmarshal(data, &rpLicense): one JSON object, members that are absent
\* keep their zero value.
Unmarshal(data) ==
    IF Len(data) # 1 \/ data[1].form # "object"
       \/ ("type" \in data[1].keys /\ data[1].typeIsString)
    THEN [err |-> TRUE, lic |-> ZeroLicense]
    ELSE LET o == data[1] IN
         [err |-> FALSE,
          lic |-> [Version |-> IF "version" \in o.keys THEN o.version ELSE 0,
                   Organization |->
                       IF "organization" \in o.keys THEN o.organization ELSE "",
                   Type |-> IF "type" \in o.keys THEN o.type ELSE 0,
                   Expiry |-> IF "expiry" \in o.keys THEN o.expiry ELSE 0]]

\* RedpandaLicense.CheckExpiry: an error when expiry <= now.
CheckExpiryFails(lic, t) == lic.Expiry <= t

\* os.ReadFile
ReadFile(path) ==
    LET f == fs[path] IN
    IF ~f.exists THEN [err |-> "notexist", data |-> <<>>]
    ELSE IF ~f.readable THEN [err |-> "permission", data |-> <<>>]
    ELSE [err |-> "", data |-> f.data]

\* os.IsNotExist
IsNotExist(e) == e = "notexist"

-----------------------------------------------------------------------------
(* Configuration *)

PemBlock(wellFormed, alg, id) ==
    [kind |-> "block", der |-> [wellFormed |-> wellFormed, alg |-> alg, id |-> id]]

PemText == [kind |-> "text"]

\* //go:embed public_key.pem
licensePublicKeyPem == <<PemBlock(TRUE, "rsa", "redpanda")>>

\* Config.publicKeyPem
publicKeyPem(c) ==
    IF Len(c.customPublicKeyPem) > 0
    THEN c.customPublicKeyPem
    ELSE licensePublicKeyPem

\* Config.defaultLicenseFilepath
defaultLicenseFilepathOf(c) ==
    IF c.customDefaultLicenseFilepath # ""
    THEN c.customDefaultLicenseFilepath
    ELSE defaultLicenseFilepath

-----------------------------------------------------------------------------
(* readLicense *)

\* readLicense with the explicit file path tried before the inline license.
readLicenseFileFirst ==
    IF conf.LicenseFilepath # ""
    THEN LET r == ReadFile(conf.LicenseFilepath) IN
         [data |-> IF r.err # "" THEN <<>> ELSE r.data,
          err |-> IF r.err # "" THEN "failed to read license file" ELSE "",
          reads |-> <<conf.LicenseFilepath>>,
          debug |-> <<"Loading Redpanda Enterprise license from explicit file path">>]
    ELSE [data |-> conf.License, err |-> "", reads |-> <<>>,
          debug |-> <<"Loading explicitly defined Redpanda Enterprise license">>]

\* readLicense without the os.IsNotExist test on the default path.
readLicenseDefaultStrict ==
    IF conf.License # <<>>
    THEN [data |-> conf.License, err |-> "", reads |-> <<>>,
          debug |-> <<"Loading explicitly defined Redpanda Enterprise license">>]
    ELSE IF conf.LicenseFilepath # ""
    THEN LET r == ReadFile(conf.LicenseFilepath) IN
         [data |-> IF r.err # "" THEN <<>> ELSE r.data,
          err |-> IF r.err # "" THEN "failed to read license file" ELSE "",
          reads |-> <<conf.LicenseFilepath>>,
          debug |-> <<"Loading Redpanda Enterprise license from explicit file path">>]
    ELSE LET r == ReadFile(defaultLicenseFilepathOf(conf)) IN
         [data |-> IF r.err # "" THEN <<>> ELSE r.data,
          err |-> IF r.err # ""
                  THEN "failed to read default path license file"
                  ELSE "",
          reads |-> <<defaultLicenseFilepathOf(conf)>>,
          debug |-> <<>>]

\* Service.readLicense: the bytes and error it returns, the files it reads and
\* the debug lines it logs.
readLicense ==
    IF conf.License # <<>>
    THEN [data |-> conf.License, err |-> "", reads |-> <<>>,
          debug |-> <<"Loading explicitly defined Redpanda Enterprise license">>]
    ELSE IF conf.LicenseFilepath # ""
    THEN LET r == ReadFile(conf.LicenseFilepath) IN
         [data |-> IF r.err # "" THEN <<>> ELSE r.data,
          err |-> IF r.err # "" THEN "failed to read license file" ELSE "",
          reads |-> <<conf.LicenseFilepath>>,
          debug |-> <<"Loading Redpanda Enterprise license from explicit file path">>]
    ELSE LET r == ReadFile(defaultLicenseFilepathOf(conf)) IN
         IF r.err # ""
         THEN [data |-> <<>>,
               err |-> IF ~IsNotExist(r.err)
                       THEN "failed to read default path license file"
                       ELSE "",
               reads |-> <<defaultLicenseFilepathOf(conf)>>,
               debug |-> <<>>]
         ELSE [data |-> r.data, err |-> "",
               reads |-> <<defaultLicenseFilepathOf(conf)>>,
               debug |-> <<"Loaded Redpanda Enterprise license from default file path">>]

-----------------------------------------------------------------------------
(* The RegisterService call, step by step *)

validateVars == <<publicKeyRSA, splitParts, licenseData, signature>>
ghostVars    == <<verified, unmarshalled, synthAt, checkedAt>>
envVars      == <<conf, fs, now, observed>>
cellVars     == <<loadedLicense, registered, stores>>

\* fmt.Errorf("failed to validate license: %w", err), line 110
ValidateError(e) == "failed to validate license: " \o e

\* A return of (RedpandaLicense{}, e) from readAndValidateLicense.
Fail(e) ==
    /\ license' = ZeroLicense
    /\ err' = e
    /\ pc' = "logError"

\* Lines 102-108: readLicense, then the branch on its result.
ReadLicense ==
    /\ pc = "readLicense"
    /\ LET r == readLicense IN
       /\ fileReads' = fileReads \o r.reads
       /\ debugLog' = debugLog \o r.debug
       /\ IF r.err # ""
          THEN /\ Fail(r.err)
               /\ licenseBytes' = <<>>
          ELSE /\ licenseBytes' = r.data
               /\ pc' = IF Len(r.data) > 0 THEN "parseKey" ELSE "fallback"
               /\ UNCHANGED <<license, err>>
    /\ UNCHANGED <<envVars, cellVars, validateVars, ghostVars, errorLog>>

\* Lines 172-183: the public key.  block.Bytes of a nil block is a nil pointer
\* dereference: the goroutine panics inside RegisterService.
ValidateParseKey ==
    /\ pc = "parseKey"
    /\ LET block == PemDecode(publicKeyPem(conf)) IN
       IF block = <<>>
       THEN /\ pc' = "panic"
            /\ UNCHANGED <<license, err, publicKeyRSA>>
       ELSE LET k == ParsePKIXPublicKey(block[1].der) IN
            IF k.err
            THEN /\ Fail(ValidateError("failed to parse public key"))
                 /\ UNCHANGED publicKeyRSA
            ELSE IF k.alg # "rsa"
            THEN /\ Fail(ValidateError("failed to parse public key, expected dateFormat is not RSA"))
                 /\ UNCHANGED publicKeyRSA
            ELSE /\ publicKeyRSA' = k.id
                 /\ pc' = "split"
                 /\ UNCHANGED <<license, err>>
    /\ UNCHANGED <<envVars, cellVars, ghostVars, licenseBytes, splitParts,
                   licenseData, signature, errorLog, debugLog, fileReads>>

\* Lines 186-192: trim, split on the delimiter.
ValidateSplit ==
    /\ pc = "split"
    /\ LET parts == Split(TrimSpace(licenseBytes)) IN
       IF Len(parts) # 2
       THEN /\ Fail(ValidateError("failed to split license contents by delimiter"))
            /\ UNCHANGED splitParts
       ELSE /\ splitParts' = parts
            /\ pc' = "decode"
            /\ UNCHANGED <<license, err>>
    /\ UNCHANGED <<envVars, cellVars, ghostVars, licenseBytes, publicKeyRSA,
                   licenseData, signature, errorLog, debugLog, fileReads>>

\* ValidateDecode with the payload unmarshalled as soon as it is decoded,
\* before the signature is looked at.
ValidateDecodeThenUnmarshal ==
    /\ pc = "decode"
    /\ LET data == DecodeString(splitParts[1])
           sig  == DecodeString(splitParts[2]) IN
       IF data.err
       THEN /\ Fail(ValidateError("failed to decode license data"))
            /\ UNCHANGED <<licenseData, signature, unmarshalled>>
       ELSE IF Unmarshal(data.data).err
       THEN /\ Fail(ValidateError("failed to unmarshal license data"))
            /\ licenseData' = data.data
            /\ unmarshalled' = TRUE
            /\ UNCHANGED signature
       ELSE IF sig.err
       THEN /\ Fail(ValidateError("failed to decode license signature"))
            /\ licenseData' = data.data
            /\ unmarshalled' = TRUE
            /\ UNCHANGED signature
       ELSE /\ licenseData' = data.data
            /\ signature' = sig.data
            /\ unmarshalled' = TRUE
            /\ pc' = "verify"
            /\ UNCHANGED <<license, err>>
    /\ UNCHANGED <<envVars, cellVars, licenseBytes, publicKeyRSA, splitParts,
                   verified, synthAt, checkedAt, errorLog, debugLog, fileReads>>

\* Lines 194-205: base64 of both parts.
ValidateDecode ==
    /\ pc = "decode"
    /\ LET data == DecodeString(splitParts[1])
           sig  == DecodeString(splitParts[2]) IN
       IF data.err
       THEN /\ Fail(ValidateError("failed to decode license data"))
            /\ UNCHANGED <<licenseData, signature>>
       ELSE IF sig.err
       THEN /\ Fail(ValidateError("failed to decode license signature"))
            /\ licenseData' = data.data
            /\ UNCHANGED signature
       ELSE /\ licenseData' = data.data
            /\ signature' = sig.data
            /\ pc' = "verify"
            /\ UNCHANGED <<license, err>>
    /\ UNCHANGED <<envVars, cellVars, ghostVars, licenseBytes, publicKeyRSA,
                   splitParts, errorLog, debugLog, fileReads>>

\* ValidateVerify with the result of rsa.VerifyPKCS1v15 dropped.
ValidateVerifyUnchecked ==
    /\ pc = "verify"
    /\ verified' = TRUE
    /\ pc' = "unmarshal"
    /\ UNCHANGED <<license, err>>
    /\ UNCHANGED <<envVars, cellVars, validateVars, licenseBytes, unmarshalled,
                   synthAt, checkedAt, errorLog, debugLog, fileReads>>

\* Lines 206-211: the digest of the encoded payload, and the RSA verification.
ValidateVerify ==
    /\ pc = "verify"
    /\ LET hash == Sha256(splitParts[1]) IN
       IF ~VerifyPKCS1v15(publicKeyRSA, hash, signature)
       THEN /\ Fail(ValidateError("failed to verify license signature"))
            /\ UNCHANGED verified
       ELSE /\ verified' = TRUE
            /\ pc' = "unmarshal"
            /\ UNCHANGED <<license, err>>
    /\ UNCHANGED <<envVars, cellVars, validateVars, licenseBytes, unmarshalled,
                   synthAt, checkedAt, errorLog, debugLog, fileReads>>

\* Lines 214-219: the payload becomes a RedpandaLicense.
ValidateUnmarshal ==
    /\ pc = "unmarshal"
    /\ unmarshalled' = TRUE
    /\ LET r == Unmarshal(licenseData) IN
       IF r.err
       THEN Fail(ValidateError("failed to unmarshal license data"))
       ELSE /\ license' = r.lic
            /\ pc' = "trial"
            /\ UNCHANGED err
    /\ UNCHANGED <<envVars, cellVars, validateVars, licenseBytes, verified,
                   synthAt, checkedAt, errorLog, debugLog, fileReads>>

\* TrialCheck without the test of license.Type.
TrialCheckMissing ==
    /\ pc = "trial"
    /\ pc' = "checkExpiry"
    /\ UNCHANGED <<license, err>>
    /\ UNCHANGED <<envVars, cellVars, validateVars, ghostVars, licenseBytes,
                   errorLog, debugLog, fileReads>>

\* Lines 112-116: trials are rejected.
TrialCheck ==
    /\ pc = "trial"
    /\ IF license.Type = 0
       THEN Fail("trial license detected, Redpanda Connect does not support enterprise license trials")
       ELSE /\ pc' = "checkExpiry"
            /\ UNCHANGED <<license, err>>
    /\ UNCHANGED <<envVars, cellVars, validateVars, ghostVars, licenseBytes,
                   errorLog, debugLog, fileReads>>

\* Fallback with the record stored into the cell as soon as it is built, before
\* CheckExpiry.
FallbackStoresEarly ==
    /\ pc = "fallback"
    /\ license' = [ZeroLicense EXCEPT !.Expiry = now + 10 * year, !.Type = -1]
    /\ synthAt' = <<now>>
    /\ loadedLicense' = <<license'>>
    /\ stores' = Append(stores, license')
    /\ pc' = "checkExpiry"
    /\ UNCHANGED <<envVars, registered, validateVars, licenseBytes, err, verified,
                   unmarshalled, checkedAt, errorLog, debugLog, fileReads>>

\* Lines 117-124: the open source license.
Fallback ==
    /\ pc = "fallback"
    /\ license' = [ZeroLicense EXCEPT !.Expiry = now + 10 * year, !.Type = -1]
    /\ synthAt' = <<now>>
    /\ pc' = "checkExpiry"
    /\ UNCHANGED <<envVars, cellVars, validateVars, licenseBytes, err, verified,
                   unmarshalled, checkedAt, errorLog, debugLog, fileReads>>

\* Lines 126-128: license.CheckExpiry().
CheckExpiry ==
    /\ pc = "checkExpiry"
    /\ checkedAt' = <<now>>
    /\ IF CheckExpiryFails(license, now)
       THEN Fail("license expired")
       ELSE /\ pc' = "logSuccess"
            /\ UNCHANGED <<license, err>>
    /\ UNCHANGED <<envVars, cellVars, validateVars, licenseBytes, verified,
                   unmarshalled, synthAt, errorLog, debugLog, fileReads>>

\* Lines 130-136: the debug line, and the return of (license, nil).
LogSuccess ==
    /\ pc = "logSuccess"
    /\ debugLog' = Append(debugLog, "Successfully loaded Redpanda license")
    /\ pc' = "store"
    /\ UNCHANGED <<envVars, cellVars, validateVars, ghostVars, licenseBytes,
                   license, err, errorLog, fileReads>>

\* Lines 77-79: the error is logged.
LogError ==
    /\ pc = "logError"
    /\ errorLog' = Append(errorLog, err)
    /\ pc' = "store"
    /\ UNCHANGED <<envVars, cellVars, validateVars, ghostVars, licenseBytes,
                   license, err, debugLog, fileReads>>

\* Line 80: s.loadedLicense.Store(&license)
Store ==
    /\ pc = "store"
    /\ loadedLicense' = <<license>>
    /\ stores' = Append(stores, license)
    /\ pc' = "register"
    /\ UNCHANGED <<envVars, validateVars, ghostVars, licenseBytes, license, err,
                   registered, errorLog, debugLog, fileReads>>

\* Line 82: setSharedService(res, s)
Register ==
    /\ pc = "register"
    /\ registered' = TRUE
    /\ pc' = "done"
    /\ UNCHANGED <<envVars, validateVars, ghostVars, licenseBytes, license, err,
                   loadedLicense, stores, errorLog, debugLog, fileReads>>

-----------------------------------------------------------------------------
(* The environment *)

\* A second of wall clock time passes.
Tick ==
    /\ now < MaxNow
    /\ now' = now + 1
    /\ UNCHANGED <<conf, fs, observed, cellVars, validateVars, ghostVars, pc,
                   licenseBytes, license, err, errorLog, debugLog, fileReads>>

\* A concurrent reader loads the snapshot: s.loadedLicense.Load().
CurrentLicense ==
    /\ observed' = <<loadedLicense>>
    /\ observed' # observed
    /\ UNCHANGED <<conf, fs, now, cellVars, validateVars, ghostVars, pc,
                   licenseBytes, license, err, errorLog, debugLog, fileReads>>

-----------------------------------------------------------------------------
(* Inputs *)

AllKeys == {"version", "organization", "type", "expiry"}

Organizations == {"", "acme"}

Types == {-1, 0, 1}

\* Payloads: complete records, and documents that are not.
FullDocs ==
    {JsonDoc(AllKeys, 1, o, t, e, FALSE) :
        o \in Organizations, t \in Types, e \in Expiries}

GoodDoc == JsonDoc(AllKeys, 1, "acme", 1, MaxNow + 1, FALSE)

EmptyObject == JsonDoc({}, 0, "", 0, 0, FALSE)

TypeOnly == JsonDoc({"type"}, 0, "", 1, 0, FALSE)

TypeAsString == JsonDoc(AllKeys, 1, "acme", 1, MaxNow + 1, TRUE)

Docs == FullDocs \cup {EmptyObject, TypeOnly, TypeAsString, NotJson}

Signers == {"redpanda", "other"}

\* The signature group an issuer holding the private key of k makes over the
\* encoded payload m.
Sig(k, m) == B64(SignPKCS1v15(k, Sha256(m)))

\* <base64 payload>.<base64 signature>, issued by k for document d.
Signed(d, k) == <<B64(d), DOT, Sig(k, <<B64(d)>>)>>

P0 == B64(GoodDoc)

Credentials ==
    {Signed(d, k) : d \in Docs, k \in Signers}
    \cup {
        <<NL>> \o Signed(GoodDoc, "redpanda") \o <<NL>>,
        <<P0, NL, DOT, Sig("redpanda", <<P0>>)>>,
        <<P0, NL, DOT, Sig("redpanda", <<P0, NL>>)>>,
        <<P0, DOT, Sig("redpanda", <<B64(EmptyObject)>>)>>,
        <<B64(JsonDoc(AllKeys, 1, "acme", -1, MaxNow + 1, FALSE)), DOT,
          Sig("redpanda", <<P0>>)>>,
        <<P0, P0, DOT, Sig("redpanda", <<P0, P0>>)>>,
        <<DOT, Sig("redpanda", <<>>)>>,
        <<P0, DOT>>,
        <<DOT>>,
        <<P0, DOT, P0>>,
        <<P0, DOT, BAD>>,
        <<BAD, DOT, Sig("redpanda", <<P0>>)>>,
        <<P0>>,
        <<P0, DOT, Sig("redpanda", <<P0>>), DOT, Sig("redpanda", <<P0>>)>>,
        <<NL>>
    }

\* Config.customPublicKeyPem
PublicKeyPems == {
    <<>>,
    <<PemText>>,
    <<PemBlock(FALSE, "", "")>>,
    <<PemBlock(TRUE, "ecdsa", "ec")>>,
    <<PemBlock(TRUE, "rsa", "other")>>,
    <<PemText, PemBlock(TRUE, "rsa", "redpanda")>>
}

ExplicitPath == "/opt/connect/connect.license"

TestDefaultPath == "/tmp/test/default.license"

Paths == {ExplicitPath, defaultLicenseFilepath, TestDefaultPath}

Absent == [exists |-> FALSE, readable |-> FALSE, data |-> <<>>]

Unreadable == [exists |-> TRUE, readable |-> FALSE, data |-> <<>>]

File(data) == [exists |-> TRUE, readable |-> TRUE, data |-> data]

ConfigOf(lic, path, pem, dflt) ==
    [License |-> lic, LicenseFilepath |-> path, customPublicKeyPem |-> pem,
     customDefaultLicenseFilepath |-> dflt]

\* An inline credential is configured; the files may hold a credential too.
InlineInputs ==
    {[conf |-> ConfigOf(lic, path, pem, ""), fs |-> f] :
        lic \in Credentials, path \in {"", ExplicitPath}, pem \in PublicKeyPems,
        f \in {[p \in Paths |-> st] :
                  st \in {Absent, Unreadable, File(Signed(GoodDoc, "redpanda"))}}}

FileStates == {
    Absent,
    Unreadable,
    File(<<>>),
    File(Signed(GoodDoc, "redpanda") \o <<NL>>),
    File(Signed(JsonDoc(AllKeys, 1, "acme", 0, MaxNow + 1, FALSE), "redpanda")),
    File(Signed(GoodDoc, "other"))
}

\* No inline credential: the credential, if any, is in a file.
FileInputs ==
    {[conf |-> ConfigOf(<<>>, path, pem, dflt), fs |-> f] :
        path \in {"", ExplicitPath}, pem \in {<<>>, <<PemText>>},
        dflt \in {"", TestDefaultPath}, f \in [Paths -> FileStates]}

Inputs == InlineInputs \cup FileInputs

-----------------------------------------------------------------------------
(* The specification *)

\* Lines 70-74: the Service is constructed, its cell holds the nil pointer.
Init ==
    /\ \E i \in Inputs : conf = i.conf /\ fs = i.fs
    /\ now = 1
    /\ pc = "readLicense"
    /\ licenseBytes = <<>>
    /\ err = ""
    /\ license = ZeroLicense
    /\ publicKeyRSA = ""
    /\ splitParts = <<>>
    /\ licenseData = <<>>
    /\ signature = <<>>
    /\ loadedLicense = <<>>
    /\ registered = FALSE
    /\ errorLog = <<>>
    /\ debugLog = <<>>
    /\ fileReads = <<>>
    /\ verified = FALSE
    /\ unmarshalled = FALSE
    /\ synthAt = <<>>
    /\ checkedAt = <<>>
    /\ stores = <<>>
    /\ observed = <<>>

Next ==
    \/ ReadLicense
    \/ ValidateParseKey
    \/ ValidateSplit
    \/ ValidateDecode
    \/ ValidateVerify
    \/ ValidateUnmarshal
    \/ TrialCheck
    \/ Fallback
    \/ CheckExpiry
    \/ LogSuccess
    \/ LogError
    \/ Store
    \/ Register
    \/ Tick
    \/ CurrentLicense

Spec == Init /\ [][Next]_vars

-----------------------------------------------------------------------------
(* What the properties speak about *)

TrialError ==
    "trial license detected, Redpanda Connect does not support enterprise license trials"

ReadErrors ==
    {"failed to read license file", "failed to read default path license file"}

KeyErrors ==
    {ValidateError("failed to parse public key"),
     ValidateError("failed to parse public key, expected dateFormat is not RSA")}

VerifyError == ValidateError("failed to verify license signature")

UnmarshalError == ValidateError("failed to unmarshal license data")

\* readAndValidateLicense has returned.
Returned == pc \in {"logError", "store", "register", "done"}

\* The record built when no credential is found at time t.
FallbackRecord(t) ==
    [Version |-> 0, Organization |-> "", Type |-> -1, Expiry |-> t + 10 * year]

\* The ids of the RSA keys the configured PEM yields: one or none.
ConfiguredKeys ==
    LET b == PemDecode(publicKeyPem(conf)) IN
    IF b = <<>> \/ ~b[1].der.wellFormed \/ b[1].der.alg # "rsa"
    THEN {}
    ELSE {b[1].der.id}

\* The two segments of a credential, <<>> if it does not have exactly two.
Segments(cred) ==
    LET parts == Split(TrimSpace(cred)) IN
    IF Len(parts) = 2 THEN parts ELSE <<>>

\* Both segments of the credential are base64.
WellEncoded(cred) ==
    /\ Segments(cred) # <<>>
    /\ ~DecodeString(Segments(cred)[1]).err
    /\ ~DecodeString(Segments(cred)[2]).err

\* The signature segment is the signature of a configured key over the encoded
\* payload segment.
Authentic(cred) ==
    /\ WellEncoded(cred)
    /\ \E id \in ConfiguredKeys :
          DecodeString(Segments(cred)[2]).data =
              <<SignPKCS1v15(id, Sha256(Segments(cred)[1]))>>

\* What the payload segment of a well encoded credential says.
Asserted(cred) == Unmarshal(DecodeString(Segments(cred)[1]).data)

-----------------------------------------------------------------------------
(* C1 *)

\* C1: when the inline License is not empty, readLicense returns exactly its
\* bytes and no error, and no file is read, neither Config.LicenseFilepath nor
\* the default path, whatever they are and whatever the files are.
C1_InlineLicenseOnly ==
    (conf.License # <<>> /\ pc # "readLicense") =>
        /\ licenseBytes = conf.License
        /\ fileReads = <<>>
        /\ err \notin ReadErrors

\* The inline license and an explicit path to a readable file are both
\* configured, and the load has run to its end.
C1_Witness ==
    /\ conf.License # <<>>
    /\ conf.LicenseFilepath # ""
    /\ fs[conf.LicenseFilepath].exists
    /\ fs[conf.LicenseFilepath].readable
    /\ fs[conf.LicenseFilepath].data # conf.License
    /\ pc = "done"

-----------------------------------------------------------------------------
(* C2 *)

\* C2: with no inline credential, (a) no explicit path and no file at the
\* default path: the load succeeds, nothing is logged as an error and the
\* fallback record, type -1 and expiry = the time of the load + 10 years, is
\* published; (b) an explicit path to a file that does not exist: the load
\* fails with the read error and the fallback record is not published.
C2_AbsentVersusBroken ==
    (conf.License = <<>> /\ pc # "readLicense") =>
        /\ (conf.LicenseFilepath = ""
              /\ ~fs[defaultLicenseFilepathOf(conf)].exists) =>
                /\ pc # "panic"
                /\ err = ""
                /\ errorLog = <<>>
                /\ (pc = "done" =>
                      /\ synthAt # <<>>
                      /\ loadedLicense = <<FallbackRecord(synthAt[1])>>)
        /\ (conf.LicenseFilepath # "" /\ ~fs[conf.LicenseFilepath].exists) =>
                /\ pc # "panic"
                /\ err = "failed to read license file"
                /\ synthAt = <<>>
                /\ (pc = "done" =>
                      /\ errorLog = <<"failed to read license file">>
                      /\ loadedLicense = <<ZeroLicense>>)

\* Nothing configured, nothing at the default path, the clock has moved during
\* the load, and the fallback record is published.
C2_Witness ==
    /\ conf.License = <<>>
    /\ conf.LicenseFilepath = ""
    /\ ~fs[defaultLicenseFilepathOf(conf)].exists
    /\ pc = "done"
    /\ loadedLicense # <<>>
    /\ loadedLicense[1].Type = -1
    /\ synthAt = <<1>>
    /\ now > 1

-----------------------------------------------------------------------------
(* C3 *)

\* C3: whatever makes the load fail (read error, key parse error, malformed
\* credential, invalid signature, decode error, trial, expired), the call
\* of RegisterService returns normally, logs the error once, publishes the
\* zero record and registers the service; the call never aborts.
C3_FailureIsPublishedAsZero ==
    /\ pc # "panic"
    /\ (pc = "done" /\ err # "") =>
          /\ errorLog = <<err>>
          /\ loadedLicense = <<ZeroLicense>>
          /\ registered

\* C3, for the calls that do not abort: a failed load is logged once and the
\* zero record is published and registered.
C3_WhenReturning ==
    /\ (pc \in {"store", "register", "done"} /\ err # "") => errorLog = <<err>>
    /\ (pc \in {"register", "done"} /\ err # "") => loadedLicense = <<ZeroLicense>>
    /\ (pc = "done") => registered
    /\ (err = "") => errorLog = <<>>

-----------------------------------------------------------------------------
(* C4 *)

\* C4: the published record is the zero record of a failed load, or the
\* fallback record built with no credential bytes, or the record asserted by
\* a credential whose signature is that of the configured key over the encoded
\* payload, with type # 0 and expiry > the time of the expiry check.
C4_PublishedKinds ==
    loadedLicense # <<>> =>
        LET r == loadedLicense[1] IN
        \/ /\ r = ZeroLicense
           /\ err # ""
        \/ /\ licenseBytes = <<>>
           /\ synthAt # <<>>
           /\ r = FallbackRecord(synthAt[1])
           /\ err = ""
        \/ /\ licenseBytes # <<>>
           /\ Authentic(licenseBytes)
           /\ ~Asserted(licenseBytes).err
           /\ r = Asserted(licenseBytes).lic
           /\ r.Type # 0
           /\ checkedAt # <<>>
           /\ r.Expiry > checkedAt[1]
           /\ err = ""

\* A credential that expires one second after the expiry check is published.
C4_Witness ==
    /\ pc = "done"
    /\ licenseBytes # <<>>
    /\ loadedLicense # <<>>
    /\ loadedLicense[1].Type = 1
    /\ loadedLicense[1].Organization = "acme"
    /\ checkedAt = <<2>>
    /\ loadedLicense[1].Expiry = 3

-----------------------------------------------------------------------------
(* C5 *)

\* C5: an authentic credential whose payload says type 0 fails with the trial
\* error whatever its organization and expiry: the expiry check is not
\* reached, and the record is not published.
C5_TrialRejected ==
    (/\ licenseBytes # <<>>
     /\ Authentic(licenseBytes)
     /\ ~Asserted(licenseBytes).err
     /\ Asserted(licenseBytes).lic.Type = 0
     /\ Returned) =>
        /\ err = TrialError
        /\ checkedAt = <<>>
        /\ (loadedLicense # <<>> => loadedLicense = <<ZeroLicense>>)

\* An authentic trial credential that is also expired has been refused.
C5_Witness ==
    /\ pc = "done"
    /\ Authentic(licenseBytes)
    /\ ~Asserted(licenseBytes).err
    /\ Asserted(licenseBytes).lic.Type = 0
    /\ Asserted(licenseBytes).lic.Organization = "acme"
    /\ Asserted(licenseBytes).lic.Expiry < now
    /\ Asserted(licenseBytes).lic.Expiry > 0

-----------------------------------------------------------------------------
(* C6 *)

\* C6: json.Unmarshal runs only after rsa.VerifyPKCS1v15 has succeeded.  When
\* the signature of a well encoded credential is not authentic the payload is
\* never unmarshalled and the error is the signature error, also for a payload
\* that is not a JSON record; the unmarshal error is only reported for an
\* authentic credential.
C6_VerifyBeforeUnmarshal ==
    /\ unmarshalled => (verified /\ Authentic(licenseBytes))
    /\ (err = UnmarshalError) => Authentic(licenseBytes)
    /\ (/\ ConfiguredKeys # {}
        /\ licenseBytes # <<>>
        /\ WellEncoded(licenseBytes)
        /\ ~Authentic(licenseBytes)
        /\ Returned) =>
            /\ err = VerifyError
            /\ ~unmarshalled

\* A credential with a payload that is no JSON record and a signature of
\* another key is refused with the signature error.
C6_Witness ==
    /\ pc = "done"
    /\ WellEncoded(licenseBytes)
    /\ ~Authentic(licenseBytes)
    /\ Asserted(licenseBytes).err
    /\ err = VerifyError
    /\ ~unmarshalled

-----------------------------------------------------------------------------
(* C7 *)

\* C7: a published record of type -1 is always the fallback record built
\* locally, with expiry = the time it was built + 10 years: no credential,
\* however well signed, gets a record of type -1 published with the expiry
\* the credential asserts.
C7_TypeMinusOneIsFallback ==
    (loadedLicense # <<>> /\ loadedLicense[1].Type = -1) =>
        /\ licenseBytes = <<>>
        /\ synthAt # <<>>
        /\ loadedLicense[1] = FallbackRecord(synthAt[1])

-----------------------------------------------------------------------------
(* C8 *)

-----------------------------------------------------------------------------
(* C9 *)

\* C9: when there are credential bytes and the configured PEM has no block,
\* is malformed or holds a key that is not RSA, validateLicense returns the
\* key parse error: it does not panic, and the load fails as for any other
\* validation error.
C9_KeyParseErrorIsReturned ==
    (licenseBytes # <<>> /\ ConfiguredKeys = {} /\ pc # "parseKey") =>
        /\ pc # "panic"
        /\ err \in KeyErrors

\* C9, for a PEM that has a block: a malformed key or a key that is not RSA
\* is returned as the key parse error.
C9_WhenThereIsABlock ==
    (/\ licenseBytes # <<>>
     /\ ConfiguredKeys = {}
     /\ PemDecode(publicKeyPem(conf)) # <<>>
     /\ pc # "parseKey") =>
        /\ pc # "panic"
        /\ err \in KeyErrors

-----------------------------------------------------------------------------
(* C10 *)

\* C10: the fallback record is built only when the inline credential is
\* empty, the explicit path is empty and the default path file does not
\* exist.  When a credential file was found and read, the load verifies its
\* content or fails, also when the file holds zero bytes.
C10_FallbackOnlyWhenAbsent ==
    synthAt # <<>> =>
        /\ conf.License = <<>>
        /\ conf.LicenseFilepath = ""
        /\ ~fs[defaultLicenseFilepathOf(conf)].exists
        /\ fileReads = <<defaultLicenseFilepathOf(conf)>>

\* C10, for files that hold at least one byte: the fallback record is built
\* only when no credential byte was found.
C10_WhenTheFileIsNotEmpty ==
    synthAt # <<>> =>
        /\ conf.License = <<>>
        /\ licenseBytes = <<>>
        /\ \A i \in 1..Len(fileReads) :
              \/ ~fs[fileReads[i]].exists
              \/ fs[fileReads[i]].readable /\ fs[fileReads[i]].data = <<>>

=============================================================================
